---- MODULE Spec2Model ----
(***************************************************************************)
(* Kraken batch image optimizer (src/App.tsx): the batch registry          *)
(* `images`, the processAll / processImage driver, the suggestName side    *)
(* pipeline, the downloadZip exporter and the browser's blob-URL store.    *)
(*                                                                         *)
(* Scheduling is the browser event loop.  A user event, an engine progress *)
(* message and the settling of an awaited promise are tasks and interleave *)
(* freely; the continuation of `await processImage(image)` inside          *)
(* processAll is a microtask and runs before any other task (pc = "loop"). *)
(* Every setImages call passes a fresh array, so React commits a render    *)
(* with a new `images` value and runs the cleanup of the previous          *)
(* useEffect(..., [images]) on the previous array.                         *)
(*                                                                         *)
(* The two awaits of processImage (resizeImageToFit, which never rejects,  *)
(* and imageCompression) are one phase, pc = "compress": no state is       *)
(* written between them.  Spec is the session of user actions, batch runs  *)
(* and naming calls; BatchSpec is the scenario of one run over a fresh     *)
(* batch followed by downloadZip; LiveSpec adds to Spec the fairness the   *)
(* event loop and a settling engine give.                                  *)
(***************************************************************************)
EXTENDS Integers, Sequences, FiniteSets, TLC

\* ------------------------------------------------------------------ bounds
\* Number of files the user hands to addFiles over the session.
MaxFiles == 2
\* Size of the batch in the scenario of one run followed by downloadZip.
MaxBatch == 3
\* suggestName requests in flight at the same time.
MaxNaming == 2

\* ------------------------------------------------------------- value sets
Ids == 1..(IF MaxBatch > MaxFiles THEN MaxBatch ELSE MaxFiles)
\* Optional fields of ImageFile: absent is <<>>, present is <<value>>.
Undefined == <<>>
Some(v) == <<v>>
\* isRenaming: string | null
Null == 0

\* Values the compression engine hands to options.onProgress.
EngineProgress == {50, 100}
\* Names the naming service answers with (already slugs).
Suggestions == {"sunset"}

\* settings.targetFormat of the render whose closures run (the default).
TargetFormat == "webp"

\* Blob URLs are identified by what they were created for.
PreviewUrl(id) == [kind |-> "preview", id |-> id]
ResultUrl(id) == [kind |-> "result", id |-> id]

\* File names are kept as stem and extension.  The files the user hands to
\* addFiles over the session, in order: "a.png", "b.png", ...
Stems == <<"a", "b", "c", "d", "e">>
FileOf(k) == [stem |-> Stems[k], ext |-> "png", size |-> 4]
\* The file the engine resolves with for record id.
CompressedFile(id) == [owner |-> id, size |-> 2]

VARIABLES
    images,        \* useState<ImageFile[]>: the batch, in insertion order
    nextId,        \* ids handed out so far (randomUUID never repeats)
    isProcessing,  \* useState(false)
    isRenaming,    \* useState<string | null>(null)
    created,       \* blob URLs ever returned by URL.createObjectURL
    revoked,       \* blob URLs passed to URL.revokeObjectURL at least once
    revokedTwice,  \* ... passed to it more than once
    pending,       \* processAll: the records it filtered at the click
    idx,           \* processAll: position of the loop in pending
    pc,            \* processAll: "idle", "loop" or "compress"
    naming,        \* suggestName calls in flight, per record id
    zip,           \* the downloadZip call: its position, JSZip and outcome
    call           \* a call followed on its own: arguments, position, result

vars == <<images, nextId, isProcessing, isRenaming, created, revoked,
          revokedTwice, pending, idx, pc, naming, zip, call>>

\* --------------------------------------------------------------- helpers
IdsOf(imgs) == {imgs[i].id : i \in DOMAIN imgs}
InBatch(id) == id \in IdsOf(images)
Find(imgs, id) == CHOOSE i \in DOMAIN imgs : imgs[i].id = id

\* prev.map(img => img.id === id ? <updated img> : img), with updated[i] the
\* updated form of imgs[i].
MapId(imgs, id, updated) ==
    [i \in DOMAIN imgs |-> IF imgs[i].id = id THEN updated[i] ELSE imgs[i]]

\* The URLs one record holds: if (img.preview) ...; if (img.optimizedUrl) ...
UrlsOf(img) ==
    {img.preview} \cup
    (IF img.optimizedUrl # Undefined THEN {img.optimizedUrl[1]} ELSE {})

\* What the cleanup of useEffect(..., [images]) revokes for the array imgs.
EffectCleanup(imgs) == UNION {UrlsOf(imgs[i]) : i \in DOMAIN imgs}

\* One setImages call: the updater's own revocations (inUpdater), the new
\* array, and the cleanup of the effect that captured the previous array.
SetImages(new, inUpdater) ==
    /\ images' = new
    /\ revoked' = revoked \cup inUpdater \cup EffectCleanup(images)
    /\ revokedTwice' = revokedTwice
                       \cup ((inUpdater \cup EffectCleanup(images)) \cap revoked)
                       \cup (inUpdater \cap EffectCleanup(images))

\* No microtask of the batch loop is queued: a task may run.
TaskTurn == pc # "loop"

\* No downloadZip call is under way and none has ended.
NoZip == [pc |-> "idle", queue |-> <<>>, entries |-> {}, outcome |-> "none",
          archive |-> {}]

\* ------------------------------------------------------------------ Init
\* No call is followed on its own.
NoCall == [fn |-> "none"]

\* The component after its first render.
Mounted ==
    /\ images = <<>>
    /\ nextId = 1
    /\ isProcessing = FALSE
    /\ isRenaming = Null
    /\ created = {}
    /\ revoked = {}
    /\ revokedTwice = {}
    /\ pending = <<>>
    /\ idx = 1
    /\ pc = "idle"
    /\ naming = [i \in Ids |-> 0]
    /\ zip = NoZip

Init == Mounted /\ call = NoCall

\* -------------------------------------------------------------- addFiles
NewImage(id, file) ==
    [id |-> id, file |-> file, preview |-> PreviewUrl(id),
     status |-> "pending", progress |-> 0, originalSize |-> file.size,
     optimizedSize |-> Undefined, optimizedUrl |-> Undefined,
     optimizedName |-> Undefined, error |-> Undefined]

\* An addFiles that puts the new records in front of the existing ones.
AddFilesPrepends(n) ==
    /\ TaskTurn
    /\ nextId + n - 1 <= MaxFiles
    /\ LET newImages == [k \in 1..n |-> NewImage(nextId + k - 1,
                                                  FileOf(nextId + k - 1))]
       IN /\ created' = created \cup {newImages[k].preview : k \in 1..n}
          /\ SetImages(newImages \o images, {})
    /\ nextId' = nextId + n
    /\ UNCHANGED <<isProcessing, isRenaming, pending, idx, pc, naming, zip,
                   call>>
AddFiles(n) ==
    /\ TaskTurn
    /\ nextId + n - 1 <= MaxFiles
    /\ LET newImages == [k \in 1..n |-> NewImage(nextId + k - 1,
                                                  FileOf(nextId + k - 1))]
       IN /\ created' = created \cup {newImages[k].preview : k \in 1..n}
          /\ SetImages(images \o newImages, {})
    /\ nextId' = nextId + n
    /\ UNCHANGED <<isProcessing, isRenaming, pending, idx, pc, naming, zip,
                   call>>

\* ----------------------------------------------------------- removeImage
RemoveImage(id) ==
    /\ TaskTurn
    /\ InBatch(id)
    /\ LET target == images[Find(images, id)]
           keep(img) == img.id # id
       IN SetImages(SelectSeq(images, keep), UrlsOf(target))
    /\ UNCHANGED <<nextId, isProcessing, isRenaming, created, pending, idx, pc,
                   naming, zip,
                   call>>

\* -------------------------------------------------------- clearWorkspace
ClearWorkspace ==
    /\ TaskTurn
    /\ Len(images) > 0
    /\ isRenaming' = Null
    /\ SetImages(<<>>, EffectCleanup(images))
    /\ UNCHANGED <<nextId, isProcessing, created, pending, idx, pc, naming, zip,
                   call>>

\* ----------------------------------------------------------- suggestName
RECURSIVE SumNaming(_)
SumNaming(S) ==
    IF S = {} THEN 0
    ELSE LET i == CHOOSE x \in S : TRUE IN naming[i] + SumNaming(S \ {i})

\* The click: setIsRenaming(image.id), then the request is under way
\* (createAiThumbnailPayload and fetch are awaited).
SuggestName(id) ==
    /\ TaskTurn
    /\ InBatch(id)
    /\ isRenaming # id
    /\ SumNaming(Ids) < MaxNaming
    /\ isRenaming' = id
    /\ naming' = [naming EXCEPT ![id] = @ + 1]
    /\ UNCHANGED <<images, nextId, isProcessing, created, revoked,
                   revokedTwice, pending, idx, pc, zip,
                   call>>

\* A rename that falls back on the extension of the source file when the
\* record has no name yet.
RenamedWithSourceExtension(targetFormat, img, newName) ==
    [img EXCEPT !.optimizedName =
        Some([stem |-> newName, opti |-> FALSE,
              ext |-> IF img.optimizedName # Undefined
                      THEN img.optimizedName[1].ext ELSE img.file.ext])]
\* `${newName}.${img.optimizedName?.split('.').pop() || settings.targetFormat}`
\* under the settings of the render whose closure runs.
RenamedWith(targetFormat, img, newName) ==
    [img EXCEPT !.optimizedName =
        Some([stem |-> newName, opti |-> FALSE,
              ext |-> IF img.optimizedName # Undefined
                      THEN img.optimizedName[1].ext ELSE targetFormat])]
Renamed(img, newName) == RenamedWith(TargetFormat, img, newName)

\* resp.ok: the rename update, then finally setIsRenaming(null).
SuggestNameOk(id, newName) ==
    /\ TaskTurn
    /\ naming[id] > 0
    /\ LET f(img) == Renamed(img, newName)
       IN SetImages(MapId(images, id, [i \in DOMAIN images |-> f(images[i])]), {})
    /\ isRenaming' = Null
    /\ naming' = [naming EXCEPT ![id] = @ - 1]
    /\ UNCHANGED <<nextId, isProcessing, created, pending, idx, pc, zip,
                   call>>

\* Mutant: the catch block marks the record as failed.
SuggestNameFailedMarksError(id) ==
    /\ TaskTurn
    /\ naming[id] > 0
    /\ LET f(img) == [img EXCEPT !.status = "error",
                             !.error = Some("AI naming failed")]
       IN SetImages(MapId(images, id, [i \in DOMAIN images |-> f(images[i])]), {})
    /\ isRenaming' = Null
    /\ naming' = [naming EXCEPT ![id] = @ - 1]
    /\ UNCHANGED <<nextId, isProcessing, created, pending, idx, pc, zip,
                   call>>

\* The thumbnail payload, the fetch or resp.ok failed: catch logs, then
\* finally setIsRenaming(null).
SuggestNameFailed(id) ==
    /\ TaskTurn
    /\ naming[id] > 0
    /\ isRenaming' = Null
    /\ naming' = [naming EXCEPT ![id] = @ - 1]
    /\ UNCHANGED <<images, nextId, isProcessing, created, revoked,
                   revokedTwice, pending, idx, pc, zip,
                   call>>

\* ---------------------------------------------------------- processImage
\* progress is kept in hundredths of a percent: 10 + p * 0.85 is not an
\* integer for every p.
Percent(n) == n * 100
Started(img) == [img EXCEPT !.status = "processing", !.progress = Percent(5)]
Progressed(img, p) == [img EXCEPT !.progress = Percent(10) + p * 85]

\* settings.targetFormat === 'original' ? image.file.name.split('.').pop()
\*                                       : settings.targetFormat
Extension(targetFormat, file) ==
    IF targetFormat = "original" THEN file.ext ELSE targetFormat
\* image.file.name.replace(/\.[^/.]+$/, "") + `_opti.${extension}`
DefaultNameWith(targetFormat, file) ==
    [stem |-> file.stem, opti |-> TRUE, ext |-> Extension(targetFormat, file)]
DefaultName(file) == DefaultNameWith(TargetFormat, file)

\* A completion update that writes the default name over any name present.
CompletedOverwritesName(img, compressedFile, optimizedUrl, fileName) ==
    [img EXCEPT !.status = "completed", !.progress = Percent(100),
                !.optimizedSize = Some(compressedFile.size),
                !.optimizedUrl = Some(optimizedUrl),
                !.optimizedName = Some(fileName)]
Completed(img, compressedFile, optimizedUrl, fileName) ==
    [img EXCEPT !.status = "completed",
                !.progress = Percent(100),
                !.optimizedSize = Some(compressedFile.size),
                !.optimizedUrl = Some(optimizedUrl),
                !.optimizedName = IF img.optimizedName # Undefined
                                  THEN img.optimizedName ELSE Some(fileName)]

\* Mutant: the error update forgets status: 'error'.
FailedKeepsStatus(img) == [img EXCEPT !.error = Some("Process failed")]
\* An error update that also puts the progress back to 0.
FailedResetsProgress(img) ==
    [img EXCEPT !.status = "error", !.error = Some("Process failed"),
                !.progress = 0]
Failed(img) == [img EXCEPT !.status = "error", !.error = Some("Process failed")]

\* The `image` argument of the processImage call under way: the record as
\* processAll's render saw it (processImage reads its id, file, originalSize).
Current == pending[idx]

\* processImage up to its first await: the start update.
ProcessImage ==
    /\ pc = "loop"
    /\ idx <= Len(pending)
    /\ SetImages(MapId(images, Current.id, [i \in DOMAIN images |-> Started(images[i])]), {})
    /\ pc' = "compress"
    /\ UNCHANGED <<nextId, isProcessing, isRenaming, created, pending, idx,
                   naming, zip,
                   call>>

\* Mutant: the progress update misses the id test and writes every record.
OnProgressAll(p) ==
    /\ pc = "compress"
    /\ SetImages([i \in DOMAIN images |-> Progressed(images[i], p)], {})
    /\ UNCHANGED <<nextId, isProcessing, isRenaming, created, pending, idx, pc,
                   naming, zip,
                   call>>

\* options.onProgress, called by the engine while it compresses.
OnProgress(p) ==
    /\ pc = "compress"
    /\ LET f(img) == Progressed(img, p)
       IN SetImages(MapId(images, Current.id, [i \in DOMAIN images |-> f(images[i])]), {})
    /\ UNCHANGED <<nextId, isProcessing, isRenaming, created, pending, idx, pc,
                   naming, zip,
                   call>>

\* Mutant: the completion update puts the record back when it is missing.
CompressResolvedUpsert ==
    /\ pc = "compress"
    /\ LET optimizedUrl == ResultUrl(Current.id)
           f(img) == Completed(img, CompressedFile(Current.id), optimizedUrl,
                               DefaultName(Current.file))
           base == IF InBatch(Current.id) THEN images
                   ELSE images \o <<NewImage(Current.id, Current.file)>>
       IN /\ created' = created \cup {optimizedUrl}
          /\ SetImages(MapId(base, Current.id, [i \in DOMAIN base |-> f(base[i])]), {})
    /\ pc' = "loop"
    /\ idx' = idx + 1
    /\ UNCHANGED <<nextId, isProcessing, isRenaming, pending, naming, zip,
                   call>>

\* imageCompression resolved: createObjectURL and the completion update.
\* A completion after which the call stays where it was, so that the engine
\* may resolve for the same record once more.
CompressResolvedStays ==
    /\ pc = "compress"
    /\ LET optimizedUrl == ResultUrl(Current.id)
           f(img) == Completed(img, CompressedFile(Current.id), optimizedUrl,
                               DefaultName(Current.file))
       IN /\ created' = created \cup {optimizedUrl}
          /\ SetImages(MapId(images, Current.id, [i \in DOMAIN images |-> f(images[i])]), {})
    /\ \/ pc' = "loop" /\ idx' = idx + 1
       \/ pc' = pc /\ idx' = idx
    /\ UNCHANGED <<nextId, isProcessing, isRenaming, pending, naming, zip,
                   call>>
CompressResolved ==
    /\ pc = "compress"
    /\ LET optimizedUrl == ResultUrl(Current.id)
           f(img) == Completed(img, CompressedFile(Current.id), optimizedUrl,
                               DefaultName(Current.file))
       IN /\ created' = created \cup {optimizedUrl}
          /\ SetImages(MapId(images, Current.id, [i \in DOMAIN images |-> f(images[i])]), {})
    /\ pc' = "loop"
    /\ idx' = idx + 1
    /\ UNCHANGED <<nextId, isProcessing, isRenaming, pending, naming, zip,
                   call>>

\* Mutant: processImage has no catch; the rejection ends processAll where
\* it stands.
CompressRejectedAborts ==
    /\ pc = "compress"
    /\ pc' = "idle"
    /\ UNCHANGED <<images, nextId, isProcessing, isRenaming, created, revoked,
                   revokedTwice, pending, idx, naming, zip,
                   call>>

\* imageCompression rejected: the catch block's error update.
CompressRejected ==
    /\ pc = "compress"
    /\ SetImages(MapId(images, Current.id, [i \in DOMAIN images |-> Failed(images[i])]), {})
    /\ pc' = "loop"
    /\ idx' = idx + 1
    /\ UNCHANGED <<nextId, isProcessing, isRenaming, created, pending, naming, zip,
                   call>>

\* ------------------------------------------------------------ processAll
\* A filter that lets every record through, completed ones included.
NotCompletedAny(img) == img.status \in {"pending", "processing", "completed", "error"}
NotCompleted(img) == img.status # "completed"
\* Mutant: the run takes the records newest first.
SnapshotReversed(imgs) ==
    [i \in DOMAIN imgs |->
        [id |-> imgs[Len(imgs) + 1 - i].id, file |-> imgs[Len(imgs) + 1 - i].file,
         originalSize |-> imgs[Len(imgs) + 1 - i].originalSize]]
\* What processImage reads of the records it is handed.
Snapshot(imgs) ==
    [i \in DOMAIN imgs |-> [id |-> imgs[i].id, file |-> imgs[i].file,
                            originalSize |-> imgs[i].originalSize]]

\* The click on PROCESS BATCH (rendered when the batch is not empty,
\* disabled while isProcessing), up to the loop.
ProcessAll ==
    /\ TaskTurn
    /\ Len(images) > 0
    /\ ~isProcessing
    /\ isProcessing' = TRUE
    /\ pending' = Snapshot(SelectSeq(images, NotCompleted))
    /\ idx' = 1
    /\ pc' = "loop"
    /\ UNCHANGED <<images, nextId, isRenaming, created, revoked, revokedTwice,
                   naming, zip,
                   call>>

\* The loop is past its last record: setIsProcessing(false); the call
\* returns and its locals are gone.
\* An end of the run that forgets setIsProcessing(false).
ProcessAllDoneKeepsFlag ==
    /\ pc = "loop"
    /\ idx > Len(pending)
    /\ pc' = "idle"
    /\ pending' = <<>>
    /\ idx' = 1
    /\ UNCHANGED <<images, nextId, isProcessing, isRenaming, created, revoked,
                   revokedTwice, naming, zip, call>>
ProcessAllDone ==
    /\ pc = "loop"
    /\ idx > Len(pending)
    /\ isProcessing' = FALSE
    /\ pc' = "idle"
    /\ pending' = <<>>
    /\ idx' = 1
    /\ UNCHANGED <<images, nextId, isRenaming, created, revoked, revokedTwice,
                   naming, zip,
                   call>>

\* ----------------------------------------------------------- downloadZip
ZipUrl == [kind |-> "zip", id |-> 0]
\* What a fetch of a live blob URL answers with: the file it was made from.
BlobOf(url) == CompressedFile(url.id)

\* images.filter(img => img.status === 'completed' && img.optimizedUrl)
Exportable(img) == img.status = "completed" /\ img.optimizedUrl # Undefined

\* zip.file(name, blob): an entry of the same name is replaced.
ZipFile(entries, name, blob) ==
    {e \in entries : e.name # name} \cup {[name |-> name, content |-> blob]}

\* img.optimizedName || 'image.webp'
EntryName(img) ==
    IF img.optimizedName # Undefined THEN img.optimizedName[1]
    ELSE [stem |-> "image", opti |-> FALSE, ext |-> "webp"]

\* A call that goes on to build an archive even with nothing to export.
DownloadZipNoEarlyReturn ==
    /\ TaskTurn
    /\ zip.pc = "idle"
    /\ zip' = [zip EXCEPT !.pc = "fetch", !.queue = SelectSeq(images, Exportable),
                          !.entries = {}]
    /\ UNCHANGED <<images, nextId, isProcessing, isRenaming, created, revoked,
                   revokedTwice, pending, idx, pc, naming, call>>
\* The call up to its first await; with nothing to export it returns at once.
\* One call is followed at a time; outcome and archive show how the previous
\* call ended until this one ends.
DownloadZip ==
    /\ TaskTurn
    /\ zip.pc = "idle"
    /\ LET completedImages == SelectSeq(images, Exportable)
       IN IF Len(completedImages) = 0
          THEN UNCHANGED zip
          ELSE zip' = [zip EXCEPT !.pc = "fetch", !.queue = completedImages,
                                  !.entries = {}]
    /\ UNCHANGED <<images, nextId, isProcessing, isRenaming, created, revoked,
                   revokedTwice, pending, idx, pc, naming,
                   call>>

\* One turn of the loop: fetch(img.optimizedUrl!) rejects for a revoked blob
\* URL and the rejection ends the call; otherwise the blob becomes an entry.
ZipFetch ==
    /\ TaskTurn
    /\ zip.pc = "fetch"
    /\ zip.queue # <<>>
    /\ LET img == Head(zip.queue)
       IN IF img.optimizedUrl[1] \in revoked
          THEN zip' = [pc |-> "idle", queue |-> <<>>, entries |-> {},
                       outcome |-> "failed", archive |-> {}]
          ELSE zip' = [zip EXCEPT
                         !.queue = Tail(zip.queue),
                         !.entries = ZipFile(zip.entries, EntryName(img),
                                             BlobOf(img.optimizedUrl[1]))]
    /\ UNCHANGED <<images, nextId, isProcessing, isRenaming, created, revoked,
                   revokedTwice, pending, idx, pc, naming,
                   call>>

\* generateAsync, createObjectURL(content), link.click(), and the revocation
\* the zero-delay timer makes.
ZipGenerate ==
    /\ TaskTurn
    /\ zip.pc = "fetch"
    /\ zip.queue = <<>>
    /\ zip' = [pc |-> "idle", queue |-> <<>>, entries |-> {},
               outcome |-> "built", archive |-> zip.entries]
    /\ created' = created \cup {ZipUrl}
    /\ revoked' = revoked \cup {ZipUrl}
    /\ UNCHANGED <<images, nextId, isProcessing, isRenaming, revokedTwice,
                   pending, idx, pc, naming,
                   call>>

Next ==
    \/ \E n \in 0..MaxFiles : AddFiles(n)
    \/ \E id \in Ids : RemoveImage(id)
    \/ ClearWorkspace
    \/ \E id \in Ids : SuggestName(id)
    \/ \E id \in Ids, s \in Suggestions : SuggestNameOk(id, s)
    \/ \E id \in Ids : SuggestNameFailed(id)
    \/ ProcessAll
    \/ ProcessImage
    \/ \E p \in EngineProgress : OnProgress(p)
    \/ CompressResolved
    \/ CompressRejected
    \/ ProcessAllDone

Spec == Init /\ [][Next]_vars

\* --------------------------------------------- the batch scenario of sec. 8
\* N files dropped on an empty workspace, one processAll run over them, then
\* downloadZip; the engine decides per record whether it resolves or rejects.
\* The files of the batch are named "a.png" or "b.png": two of them may share
\* a name (the same picture dropped twice, or from two folders).
BatchStems == {"a", "b"}
BatchFile(stem) == [stem |-> stem, ext |-> "png", size |-> 4]
InitBatch ==
    \E n \in 1..MaxBatch, stems \in [1..MaxBatch -> BatchStems] :
        /\ images = [k \in 1..n |-> NewImage(k, BatchFile(stems[k]))]
        /\ nextId = n + 1
        /\ created = {PreviewUrl(k) : k \in 1..n}
        /\ isProcessing = FALSE
        /\ isRenaming = Null
        /\ revoked = {}
        /\ revokedTwice = {}
        /\ pending = <<>>
        /\ idx = 1
        /\ pc = "idle"
        /\ naming = [i \in Ids |-> 0]
        /\ zip = NoZip
        /\ call = NoCall

AllPending == \A i \in DOMAIN images : images[i].status = "pending"
AllSettled == \A i \in DOMAIN images : images[i].status \in {"completed", "error"}

\* The scenario's click on PROCESS BATCH: the first run over the fresh batch.
BatchProcessAll == AllPending /\ ProcessAll
\* The scenario's click on ZIP DOWNLOAD: after the run has ended.
BatchDownloadZip == ~isProcessing /\ AllSettled /\ DownloadZip

NextBatch ==
    \/ BatchProcessAll
    \/ ProcessImage
    \/ \E p \in EngineProgress : OnProgress(p)
    \/ CompressResolved
    \/ CompressRejected
    \/ ProcessAllDone
    \/ BatchDownloadZip
    \/ ZipFetch
    \/ ZipGenerate

BatchSpec == InitBatch /\ [][NextBatch]_vars

\* ------------------------------------------- toSafeSlug (naming service)
\* Text is a sequence of one-character strings.
LowerAlphabet ==
    <<"a", "b", "c", "d", "e", "f", "g", "h", "i", "j", "k", "l", "m",
      "n", "o", "p", "q", "r", "s", "t", "u", "v", "w", "x", "y", "z">>
UpperAlphabet ==
    <<"A", "B", "C", "D", "E", "F", "G", "H", "I", "J", "K", "L", "M",
      "N", "O", "P", "Q", "R", "S", "T", "U", "V", "W", "X", "Y", "Z">>
Digits == {"0", "1", "2", "3", "4", "5", "6", "7", "8", "9"}
Range(s) == {s[k] : k \in DOMAIN s}
\* [a-z0-9] and, with the i flag, [a-zA-Z0-9]
LowerAlnum == Range(LowerAlphabet) \cup Digits
Alnum == LowerAlnum \cup Range(UpperAlphabet)
\* \s
Whitespace == {" ", "\t", "\n"}

RECURSIVE TrimStart(_)
TrimStart(s) ==
    IF s # <<>> /\ Head(s) \in Whitespace THEN TrimStart(Tail(s)) ELSE s
RECURSIVE TrimEnd(_)
TrimEnd(s) ==
    IF s # <<>> /\ s[Len(s)] \in Whitespace
    THEN TrimEnd(SubSeq(s, 1, Len(s) - 1)) ELSE s
\* text.trim()
Trim(s) == TrimEnd(TrimStart(s))

\* .replace(/\.[a-z0-9]+$/i, ''): the leftmost dot that is followed, up to
\* the end, by one or more letters or digits, is removed with what follows.
StripExtension(s) ==
    LET dots == {k \in DOMAIN s :
                    /\ s[k] = "."
                    /\ k < Len(s)
                    /\ \A m \in (k + 1)..Len(s) : s[m] \in Alnum}
    IN IF dots = {} THEN s
       ELSE SubSeq(s, 1, (CHOOSE k \in dots : \A m \in dots : k <= m) - 1)

\* .replace(/\s+/g, '-'): every maximal run of whitespace becomes one hyphen.
RECURSIVE SpacesToHyphen(_)
SpacesToHyphen(s) ==
    IF s = <<>> THEN <<>>
    ELSE IF Head(s) \in Whitespace
         THEN <<"-">> \o SpacesToHyphen(TrimStart(s))
         ELSE <<Head(s)>> \o SpacesToHyphen(Tail(s))

\* .toLowerCase()
LowerChar(c) ==
    IF \E k \in DOMAIN UpperAlphabet : UpperAlphabet[k] = c
    THEN LowerAlphabet[CHOOSE k \in DOMAIN UpperAlphabet : UpperAlphabet[k] = c]
    ELSE c
ToLowerCase(s) == [k \in DOMAIN s |-> LowerChar(s[k])]

\* .replace(/[^a-z0-9-]/g, '-')
OthersToHyphen(s) ==
    [k \in DOMAIN s |-> IF s[k] \in LowerAlnum \cup {"-"} THEN s[k] ELSE "-"]

\* .replace(/-+/g, '-')
RECURSIVE CollapseHyphens(_)
CollapseHyphens(s) ==
    IF Len(s) < 2 THEN s
    ELSE IF s[1] = "-" /\ s[2] = "-" THEN CollapseHyphens(Tail(s))
         ELSE <<Head(s)>> \o CollapseHyphens(Tail(s))

\* A last step that leaves the hyphens at the two ends in place.
KeepEdgeHyphens(s) == s
\* .replace(/^-|-$/g, ''): a hyphen at the start and a hyphen at the end are
\* removed, one of each.
StripEdgeHyphens(s) ==
    LET t == IF s # <<>> /\ Head(s) = "-" THEN Tail(s) ELSE s
    IN IF t # <<>> /\ t[Len(t)] = "-" THEN SubSeq(t, 1, Len(t) - 1) ELSE t

\* 'optimized-image'
FallbackSlug ==
    <<"o", "p", "t", "i", "m", "i", "z", "e", "d", "-", "i", "m", "a", "g", "e">>
\* const base = ...
SlugBase(text) ==
    StripEdgeHyphens(CollapseHyphens(OthersToHyphen(ToLowerCase(
        SpacesToHyphen(StripExtension(Trim(text)))))))
\* return base || 'optimized-image'
toSafeSlug(text) == IF SlugBase(text) = <<>> THEN FallbackSlug ELSE SlugBase(text)

\* The texts the function is applied to: every text of up to MaxSlugLen
\* characters over a letter, a capital, a digit, a blank, a dot, a slash and
\* a hyphen, and three longer ones.
MaxSlugLen == 4
SlugChars == {"a", "B", "1", " ", ".", "/", "-"}
MyBeachPhotoJPG ==
    <<"M", "y", " ", "B", "e", "a", "c", "h", " ",
      "P", "h", "o", "t", "o", ".", "J", "P", "G">>
Blanks == <<" ", " ", " ">>
ASlashesB == <<"a", "/", "/", "/", "b">>
SlugTexts ==
    UNION {[1..n -> SlugChars] : n \in 0..MaxSlugLen}
    \cup {MyBeachPhotoJPG, Blanks, ASlashesB}

\* A call of toSafeSlug, then its return.
InitSlug ==
    /\ Mounted
    /\ \E text \in SlugTexts :
          call = [fn |-> "toSafeSlug", arg |-> text, pc |-> "called",
                  result |-> Undefined]
ToSafeSlugReturns ==
    /\ call.fn = "toSafeSlug"
    /\ call.pc = "called"
    /\ call' = [call EXCEPT !.pc = "returned",
                            !.result = Some(toSafeSlug(call.arg))]
    /\ UNCHANGED <<images, nextId, isProcessing, isRenaming, created, revoked,
                   revokedTwice, pending, idx, pc, naming, zip>>
SlugSpec == InitSlug /\ [][ToSafeSlugReturns]_vars

\* ------------------------------------------------ handler (naming service)
\* req.method
Methods == {"GET", "POST", "PUT"}
\* req.body: absent, an object, or a string that JSON.parse accepts or
\* rejects; mimeType and data say whether the field is there and non-empty.
Bodies ==
    {[kind |-> "absent", parses |-> TRUE, mimeType |-> FALSE, data |-> FALSE],
     [kind |-> "string", parses |-> FALSE, mimeType |-> FALSE, data |-> FALSE]}
    \cup {[kind |-> k, parses |-> TRUE, mimeType |-> m, data |-> d] :
             k \in {"object", "string"}, m \in BOOLEAN, d \in BOOLEAN}
\* What the model answers with, as response.text.
ModelTexts == {MyBeachPhotoJPG, Blanks, <<"c", "a", "t">>}

\* res.status(code).json(payload)
Respond(code, payload) == Append(call.responses, [status |-> code, json |-> payload])

\* A request has reached the handler; apiKey says whether
\* process.env.GEMINI_API_KEY is set and non-empty.
InitHandler ==
    /\ Mounted
    /\ \E method \in Methods, body \in Bodies, apiKey \in BOOLEAN :
          call = [fn |-> "handler", method |-> method, body |-> body,
                  apiKey |-> apiKey, pc |-> "called", responses |-> <<>>,
                  invoked |-> 0, generated |-> "none", text |-> "none"]

AppUnchanged ==
    UNCHANGED <<images, nextId, isProcessing, isRenaming, created, revoked,
                revokedTwice, pending, idx, pc, naming, zip>>

\* A handler whose 400 branch does not return.
HandlerCalledFallsThrough ==
    /\ call.fn = "handler"
    /\ call.pc = "called"
    /\ call' =
         IF call.method # "POST"
         THEN [call EXCEPT !.pc = "done",
                           !.responses = Respond(405, "Method Not Allowed")]
         ELSE IF ~call.apiKey
         THEN [call EXCEPT !.pc = "done",
                           !.responses = Respond(500, "Missing GEMINI_API_KEY")]
         ELSE IF ~call.body.parses
         THEN [call EXCEPT !.pc = "done",
                           !.responses = Respond(500, "SyntaxError")]
         ELSE IF ~call.body.mimeType \/ ~call.body.data
         THEN [call EXCEPT !.pc = "generate", !.invoked = @ + 1,
                           !.responses = Respond(400, "Missing mimeType or data")]
         ELSE [call EXCEPT !.pc = "generate", !.invoked = @ + 1]
    /\ AppUnchanged
\* The handler up to its first await or its return: method, API key, body.
HandlerCalled ==
    /\ call.fn = "handler"
    /\ call.pc = "called"
    /\ call' =
         IF call.method # "POST"
         THEN [call EXCEPT !.pc = "done",
                           !.responses = Respond(405, "Method Not Allowed")]
         ELSE IF ~call.apiKey
         THEN [call EXCEPT !.pc = "done",
                           !.responses = Respond(500, "Missing GEMINI_API_KEY")]
         ELSE IF ~call.body.parses
         THEN [call EXCEPT !.pc = "done",
                           !.responses = Respond(500, "SyntaxError")]
         ELSE IF ~call.body.mimeType \/ ~call.body.data
         THEN [call EXCEPT !.pc = "done",
                           !.responses = Respond(400, "Missing mimeType or data")]
         ELSE [call EXCEPT !.pc = "generate", !.invoked = @ + 1]
    /\ AppUnchanged

\* res.status(200).json({ name: toSafeSlug(responseText) })
Answer(responseText) ==
    [call EXCEPT !.pc = "done", !.text = "read",
                 !.responses = Respond(200, toSafeSlug(responseText))]

\* ai.models.generateContent resolves.  response.text is a string, is
\* missing (getResponseText gives ''), or is a function still to be awaited.
GenerateResolves ==
    /\ call.fn = "handler"
    /\ call.pc = "generate"
    /\ \/ \E t \in ModelTexts : call' = [Answer(t) EXCEPT !.generated = "resolved"]
       \/ call' = [Answer(<<>>) EXCEPT !.generated = "resolved"]
       \/ call' = [call EXCEPT !.pc = "text", !.generated = "resolved"]
    /\ AppUnchanged
\* ai.models.generateContent rejects: the catch answers 500.
GenerateRejects ==
    /\ call.fn = "handler"
    /\ call.pc = "generate"
    /\ call' = [call EXCEPT !.pc = "done", !.generated = "rejected",
                            !.responses = Respond(500, "AI naming failed")]
    /\ AppUnchanged
\* await t.call(response) resolves.
TextResolves ==
    /\ call.fn = "handler"
    /\ call.pc = "text"
    /\ \E t \in ModelTexts : call' = Answer(t)
    /\ AppUnchanged
\* await t.call(response) rejects: the catch answers 500.
TextRejects ==
    /\ call.fn = "handler"
    /\ call.pc = "text"
    /\ call' = [call EXCEPT !.pc = "done", !.text = "rejected",
                            !.responses = Respond(500, "AI naming failed")]
    /\ AppUnchanged

NextHandler ==
    \/ HandlerCalled
    \/ GenerateResolves
    \/ GenerateRejects
    \/ TextResolves
    \/ TextRejects
HandlerSpec == InitHandler /\ [][NextHandler]_vars

\* ------------------------------------------------------- resizeImageToFit
\* Largest width, height and bound the function is applied to.
MaxDim == 5
\* A number argument: a finite integer, or Infinity / NaN (finite = FALSE).
Finite(v) == [finite |-> TRUE, v |-> v]
NotFinite == [finite |-> FALSE, v |-> 0]
BoundValues == {NotFinite} \cup {Finite(v) : v \in (-1)..MaxDim}
\* A source file: the size of the picture in it and whether its type starts
\* with 'image/'.
SourceFiles ==
    [width : 1..MaxDim, height : 1..MaxDim, image : BOOLEAN]
\* The arguments of a call: the small ones, and the 1600x1200 source under
\* the bounds 800x600.
ResizeArgs ==
    [file : SourceFiles, maxWidth : BoundValues, maxHeight : BoundValues]
    \cup {[file |-> [width |-> 1600, height |-> 1200, image |-> TRUE],
           maxWidth |-> Finite(800), maxHeight |-> Finite(600)]}

\* Math.round of the fraction n / d (d > 0, n >= 0): halves go up.
Round(n, d) == (2 * n + d) \div (2 * d)
Max(a, b) == IF a >= b THEN a ELSE b
\* Math.min(maxWidth / width, maxHeight / height, 1) >= 1
ScaleAtLeastOne(width, height, maxWidth, maxHeight) ==
    maxWidth >= width /\ maxHeight >= height
\* scale as a fraction num / den, when it is below 1: the smaller of
\* maxWidth / width and maxHeight / height.
Scale(width, height, maxWidth, maxHeight) ==
    IF maxWidth * height <= maxHeight * width
    THEN [num |-> maxWidth, den |-> width]
    ELSE [num |-> maxHeight, den |-> height]
\* A target size that is not clamped from below.
TargetSizeUnclamped(side, scale) == Round(side * scale.num, scale.den)
\* Math.max(1, Math.round(side * scale))
TargetSize(side, scale) == Max(1, Round(side * scale.num, scale.den))

\* The file a call returns: the input itself, or a new File of the target
\* size.
SameFile(file) == [same |-> TRUE, width |-> file.width, height |-> file.height]
NewFile(width, height) == [same |-> FALSE, width |-> width, height |-> height]
Return(file) == [call EXCEPT !.pc = "returned", !.result = Some(file)]

InitResize ==
    /\ Mounted
    /\ \E args \in ResizeArgs :
          call = [fn |-> "resizeImageToFit", file |-> args.file,
                  maxWidth |-> args.maxWidth, maxHeight |-> args.maxHeight,
                  pc |-> "called", result |-> Undefined, bitmap |-> "none",
                  failure |-> "none"]

\* The two guards before the try block; otherwise createImageBitmap is
\* awaited.
ResizeCalled ==
    /\ call.fn = "resizeImageToFit"
    /\ call.pc = "called"
    /\ call' =
         IF \/ ~call.maxWidth.finite \/ ~call.maxHeight.finite
            \/ call.maxWidth.v <= 0 \/ call.maxHeight.v <= 0
         THEN Return(SameFile(call.file))
         ELSE IF ~call.file.image
         THEN Return(SameFile(call.file))
         ELSE [call EXCEPT !.pc = "decode"]
    /\ AppUnchanged

\* A decode failure that no catch takes: the promise of the call rejects.
DecodeRejectsOutward ==
    /\ call.fn = "resizeImageToFit"
    /\ call.pc = "decode"
    /\ call' = [call EXCEPT !.pc = "rejected", !.failure = "decode"]
    /\ AppUnchanged
\* createImageBitmap rejects: the catch returns the file.
DecodeRejects ==
    /\ call.fn = "resizeImageToFit"
    /\ call.pc = "decode"
    /\ call' = [Return(SameFile(call.file)) EXCEPT !.failure = "decode"]
    /\ AppUnchanged

\* createImageBitmap resolves: scale, target size, canvas, context, drawImage
\* and the call of canvas.toBlob.  getContext may answer null and drawImage
\* may throw.
DecodeResolves ==
    /\ call.fn = "resizeImageToFit"
    /\ call.pc = "decode"
    /\ LET width == call.file.width
           height == call.file.height
           maxWidth == call.maxWidth.v
           maxHeight == call.maxHeight.v
       IN IF ScaleAtLeastOne(width, height, maxWidth, maxHeight)
          THEN call' = [Return(SameFile(call.file)) EXCEPT !.bitmap = "closed"]
          ELSE \/ call' = [Return(SameFile(call.file)) EXCEPT
                             !.bitmap = "closed", !.failure = "context"]
               \/ call' = [Return(SameFile(call.file)) EXCEPT
                             !.bitmap = "open", !.failure = "draw"]
               \/ call' = [call EXCEPT !.pc = "encode", !.bitmap = "closed"]
    /\ AppUnchanged

\* canvas.toBlob calls back with the blob: a new File of the target size.
EncodeResolves ==
    /\ call.fn = "resizeImageToFit"
    /\ call.pc = "encode"
    /\ LET scale == Scale(call.file.width, call.file.height,
                          call.maxWidth.v, call.maxHeight.v)
       IN call' = Return(NewFile(TargetSize(call.file.width, scale),
                                 TargetSize(call.file.height, scale)))
    /\ AppUnchanged
\* canvas.toBlob calls back with null: the file is returned.
EncodeNull ==
    /\ call.fn = "resizeImageToFit"
    /\ call.pc = "encode"
    /\ call' = [Return(SameFile(call.file)) EXCEPT !.failure = "encode"]
    /\ AppUnchanged

NextResize ==
    \/ ResizeCalled
    \/ DecodeRejects
    \/ DecodeResolves
    \/ EncodeResolves
    \/ EncodeNull
ResizeSpec == InitResize /\ [][NextResize]_vars

\* ------------------------------------------- options.onProgress (the sink)
\* Values are fractions num / den with den > 0.
Frac(num, den) == [num |-> num, den |-> den]
FracLeq(a, b) == a.num * b.den <= b.num * a.den
FracEq(a, b) == a.num * b.den = b.num * a.den
\* A sink that forgets the 10 reserved for the resize step.
ProgressStoredNoOffset(p) == Frac(85 * p.num, 100 * p.den)
\* progress: 10 + (p * 0.85)
ProgressStored(p) == Frac(1000 * p.den + 85 * p.num, 100 * p.den)

\* The engine's range is 0..1 (a fraction, as the specification has it) or
\* 0..100 (a percentage, as browser-image-compression documents it); the
\* sink is applied to the values k / ProgressSteps of the range.
ProgressSteps == 20
EngineRanges == {1, 100}
EngineValues(max) == {Frac(max * k, ProgressSteps) : k \in 0..ProgressSteps}

\* Two engine values of one range are handed to the sink.
InitProgress ==
    /\ Mounted
    /\ \E max \in EngineRanges :
          \E p \in EngineValues(max), q \in EngineValues(max) :
             call = [fn |-> "onProgress", max |-> max, p |-> p, q |-> q,
                     pc |-> "called", result |-> Undefined]
OnProgressStores ==
    /\ call.fn = "onProgress"
    /\ call.pc = "called"
    /\ call' = [call EXCEPT
                  !.pc = "stored",
                  !.result = Some([p |-> ProgressStored(call.p),
                                   q |-> ProgressStored(call.q)])]
    /\ AppUnchanged
ProgressSpec == InitProgress /\ [][OnProgressStores]_vars

\* ----------------------------------------------- createAiThumbnailPayload
\* file.type of the picture handed to suggestName.
MediaTypes == {"image/png", "image/jpeg", "image/webp"}
\* blob.type of what canvas.toBlob(_, 'image/jpeg', 0.75) calls back with:
\* JPEG, the PNG a browser without a JPEG encoder produces, or nothing.
BlobTypes == {"image/jpeg", "image/png", ""}
\* dataUrl.split(',')[1] || '' for a reader result with or without a
\* base64 part: the bytes that were read, or ''.
Base64Of(bytes, hasData) == IF hasData THEN bytes ELSE ""

InitThumbnail ==
    /\ Mounted
    /\ \E type \in MediaTypes :
          call = [fn |-> "createAiThumbnailPayload", type |-> type,
                  pc |-> "called", resized |-> "none", bitmap |-> "none",
                  blobType |-> "", failure |-> "none", result |-> Undefined]

\* await resizeImageToFit(file, 512, 512): it resolves with the file itself
\* or with a smaller file of the same type.
ThumbnailResized ==
    /\ call.fn = "createAiThumbnailPayload"
    /\ call.pc = "called"
    /\ \E resized \in {"file", "smaller file"} :
          call' = [call EXCEPT !.pc = "decode", !.resized = resized]
    /\ AppUnchanged

\* The catch block is entered: fileToDataUrl(resized) is awaited.
Fallback(failure) == [call EXCEPT !.pc = "fallback", !.failure = failure]

\* createImageBitmap(resized) rejects.
ThumbnailDecodeRejects ==
    /\ call.fn = "createAiThumbnailPayload"
    /\ call.pc = "decode"
    /\ call' = Fallback("decode")
    /\ AppUnchanged
\* createImageBitmap(resized) resolves: canvas, context, drawImage, close,
\* and the call of canvas.toBlob.  getContext may answer null (the bitmap is
\* closed, then the throw) and drawImage may throw (the close is skipped).
ThumbnailDecodeResolves ==
    /\ call.fn = "createAiThumbnailPayload"
    /\ call.pc = "decode"
    /\ \/ call' = [Fallback("context") EXCEPT !.bitmap = "closed"]
       \/ call' = [Fallback("draw") EXCEPT !.bitmap = "open"]
       \/ call' = [call EXCEPT !.pc = "encode", !.bitmap = "closed"]
    /\ AppUnchanged
\* canvas.toBlob calls back with a blob: fileToDataUrl(thumbFile) is awaited.
ThumbnailEncodeResolves ==
    /\ call.fn = "createAiThumbnailPayload"
    /\ call.pc = "encode"
    /\ \E blobType \in BlobTypes :
          call' = [call EXCEPT !.pc = "read", !.blobType = blobType]
    /\ AppUnchanged
\* canvas.toBlob calls back with null: 'Thumbnail encoding failed' is thrown.
ThumbnailEncodeNull ==
    /\ call.fn = "createAiThumbnailPayload"
    /\ call.pc = "encode"
    /\ call' = Fallback("encode")
    /\ AppUnchanged
\* fileToDataUrl(thumbFile) resolves: the JPEG payload; thumbFile.type is
\* blob.type || 'image/jpeg'.
ThumbnailReadResolves ==
    /\ call.fn = "createAiThumbnailPayload"
    /\ call.pc = "read"
    /\ \E hasData \in BOOLEAN :
          call' = [call EXCEPT
                     !.pc = "returned",
                     !.result = Some([mimeType |-> IF call.blobType = ""
                                                   THEN "image/jpeg"
                                                   ELSE call.blobType,
                                      data |-> Base64Of("thumbnail", hasData)])]
    /\ AppUnchanged
\* fileToDataUrl(thumbFile) rejects (reader.onerror).
ThumbnailReadRejects ==
    /\ call.fn = "createAiThumbnailPayload"
    /\ call.pc = "read"
    /\ call' = Fallback("read")
    /\ AppUnchanged
\* In the catch block fileToDataUrl(resized) resolves: the payload is the
\* resized file under its own type.
FallbackReadResolves ==
    /\ call.fn = "createAiThumbnailPayload"
    /\ call.pc = "fallback"
    /\ \E hasData \in BOOLEAN :
          call' = [call EXCEPT
                     !.pc = "returned",
                     !.result = Some([mimeType |-> call.type,
                                      data |-> Base64Of(call.resized, hasData)])]
    /\ AppUnchanged
\* In the catch block fileToDataUrl(resized) rejects: nothing catches it and
\* the promise of createAiThumbnailPayload rejects.
FallbackReadRejects ==
    /\ call.fn = "createAiThumbnailPayload"
    /\ call.pc = "fallback"
    /\ call' = [call EXCEPT !.pc = "rejected"]
    /\ AppUnchanged

NextThumbnail ==
    \/ ThumbnailResized
    \/ ThumbnailDecodeRejects
    \/ ThumbnailDecodeResolves
    \/ ThumbnailEncodeResolves
    \/ ThumbnailEncodeNull
    \/ ThumbnailReadResolves
    \/ ThumbnailReadRejects
    \/ FallbackReadResolves
    \/ FallbackReadRejects
ThumbnailSpec == InitThumbnail /\ [][NextThumbnail]_vars

\* ---------------------------------- suggestName beside processImage
\* One record with a suggestName call and a processImage call in flight, both
\* started under the same settings; call.img is the record as the updaters
\* passed to setImages leave it, call.start the record before either call.

\* The formats the settings panel offers.
OutputFormats == {"webp", "avif", "jpeg", "png"}
\* The file of the record.
ConcurrentFiles == {[stem |-> "a", ext |-> e, size |-> 4] : e \in {"png", "jpg"}}
\* optimizedName before the two calls: none, or the name an earlier
\* suggestName gave it, under whatever format was set then.
EarlierNames ==
    {Undefined} \cup {Some([stem |-> "old", opti |-> FALSE, ext |-> e]) :
                         e \in OutputFormats}
\* The record before the two calls: new, named, or failed by an earlier run.
ConcurrentRecords ==
    {[img EXCEPT !.optimizedName = name] :
        img \in {NewImage(1, file) : file \in ConcurrentFiles}
                 \cup {Failed(Started(NewImage(1, file))) :
                          file \in ConcurrentFiles},
        name \in EarlierNames}

InitConcurrent ==
    /\ Mounted
    /\ \E targetFormat \in OutputFormats, img \in ConcurrentRecords,
          newName \in Suggestions :
          call = [fn |-> "concurrent", targetFormat |-> targetFormat,
                  newName |-> newName, start |-> img, img |-> img,
                  suggestName |-> "fetch", processImage |-> "start",
                  first |-> "none"]

\* processImage: the first update.
ConcurrentStarted ==
    /\ call.fn = "concurrent"
    /\ call.processImage = "start"
    /\ call' = [call EXCEPT !.img = Started(@), !.processImage = "compress"]
    /\ AppUnchanged
\* processImage: the engine reports progress.
ConcurrentProgress(p) ==
    /\ call.fn = "concurrent"
    /\ call.processImage = "compress"
    /\ call' = [call EXCEPT !.img = Progressed(@, p)]
    /\ AppUnchanged
\* processImage: the engine resolves, the completion update.
ConcurrentCompleted ==
    /\ call.fn = "concurrent"
    /\ call.processImage = "compress"
    /\ call' = [call EXCEPT
                  !.img = Completed(@, CompressedFile(@.id), ResultUrl(@.id),
                                    DefaultNameWith(call.targetFormat, @.file)),
                  !.processImage = "done",
                  !.first = IF @ = "none" THEN "processImage" ELSE @]
    /\ AppUnchanged
\* suggestName: resp.ok, the rename update.
ConcurrentRenamed ==
    /\ call.fn = "concurrent"
    /\ call.suggestName = "fetch"
    /\ call' = [call EXCEPT
                  !.img = RenamedWith(call.targetFormat, @, call.newName),
                  !.suggestName = "done",
                  !.first = IF @ = "none" THEN "suggestName" ELSE @]
    /\ AppUnchanged

NextConcurrent ==
    \/ ConcurrentStarted
    \/ \E p \in EngineProgress : ConcurrentProgress(p)
    \/ ConcurrentCompleted
    \/ ConcurrentRenamed
ConcurrentSpec == InitConcurrent /\ [][NextConcurrent]_vars

\* ======================================================== the claims
Status(id) == images[Find(images, id)].status
Settled(id) == Status(id) \in {"completed", "error"}
Processing == {i \in DOMAIN images : images[i].status = "processing"}
\* The blob URLs the batch owns: previews and results.
Owned == {u \in created : u.kind \in {"preview", "result"}}

\* C1: in every reachable state every record has a result (optimizedUrl)
\* iff its status is 'completed', an error iff its status is 'error', and
\* never both a result and an error.
C1_ResultXorError ==
    \A i \in DOMAIN images :
        /\ (images[i].optimizedUrl # Undefined) <=> (images[i].status = "completed")
        /\ (images[i].error # Undefined) <=> (images[i].status = "error")
        /\ ~(images[i].optimizedUrl # Undefined /\ images[i].error # Undefined)

\* C2: once the batch is torn down (no record left) and no batch run and no
\* compression call is under way, every preview and result URL that was
\* created has been revoked.
C2_NoHandleOutstanding ==
    (images = <<>> /\ ~isProcessing /\ pc = "idle") => Owned \subseteq revoked

\* C3: every preview and result URL is revoked at most once, and only when
\* its record leaves the batch: no revoked URL belongs to a record that is
\* still in the batch and none has been revoked twice.
C3_RevokedOnceAtRemoval ==
    /\ revokedTwice = {}
    /\ \A u \in Owned \cap revoked : ~InBatch(u.id)

\* C4: three records, the engine failing for exactly one; after the run and
\* downloadZip the failed record is in 'error', the others 'completed', the
\* order is the insertion order, the archive was built and holds exactly the
\* results of the completed records.
C4_BatchThenArchive ==
    (/\ Len(images) = 3
     /\ ~isProcessing
     /\ zip.pc = "idle" /\ zip.outcome # "none"
     /\ Cardinality({i \in DOMAIN images : images[i].error # Undefined}) = 1)
    => /\ \A i \in DOMAIN images :
            /\ images[i].id = i
            /\ images[i].status =
                  IF images[i].error # Undefined THEN "error" ELSE "completed"
       /\ zip.outcome = "built"
       /\ zip.archive =
            {[name |-> EntryName(images[i]), content |-> CompressedFile(images[i].id)] :
                i \in {k \in DOMAIN images : images[k].status = "completed"}}

\* C5: at most one record has status 'processing', and it is the record of
\* the one processImage call that is between its start and its terminal
\* update.
C5_OneAtATime ==
    /\ Cardinality(Processing) <= 1
    /\ \A i \in Processing :
          isProcessing /\ pc = "compress" /\ images[i].id = Current.id
C5_Witness ==
    /\ Len(images) >= 2
    /\ Cardinality(Processing) = 1
    /\ \E i \in DOMAIN images : images[i].status = "pending"

\* C6: a run takes its records in batch insertion order, and while it works
\* on one record every earlier record of the run that is still in the batch
\* is 'completed' or 'error' and no later record of the run has been started.
C6_InOrderOneAfterAnother ==
    isProcessing =>
        /\ \A j, k \in DOMAIN pending :
              (j < k /\ InBatch(pending[j].id) /\ InBatch(pending[k].id))
                  => Find(images, pending[j].id) < Find(images, pending[k].id)
        /\ \A k \in DOMAIN pending :
              InBatch(pending[k].id) =>
                  /\ k < idx => Settled(pending[k].id)
                  /\ k > idx => Status(pending[k].id) \in {"pending", "error"}
C6_Witness ==
    /\ isProcessing /\ pc = "compress" /\ idx = 2
    /\ InBatch(pending[1].id) /\ Status(pending[1].id) = "error"
    /\ InBatch(pending[2].id) /\ Status(pending[2].id) = "processing"

\* The event loop runs a queued continuation of the batch loop, and every
\* compression call settles.
LiveSpec ==
    /\ Spec
    /\ WF_vars(ProcessImage)
    /\ WF_vars(ProcessAllDone)
    /\ WF_vars(CompressResolved \/ CompressRejected)

\* Record id is in the run under way and the loop has not finished with it.
Waiting(id) ==
    isProcessing /\ \E k \in DOMAIN pending : k >= idx /\ pending[k].id = id

\* C7: if every compression call settles, every record of a run that stays
\* in the batch gets past the loop and is then 'completed' or 'error',
\* whatever happened to the records before it.
C7_EveryRecordSettles ==
    \A id \in Ids :
        Waiting(id) ~> (~InBatch(id) \/ (~Waiting(id) /\ Settled(id)))
\* The first record of a run failed and the loop went on to complete the
\* second.
C7_Witness ==
    /\ isProcessing /\ idx = 3 /\ Len(pending) >= 2
    /\ InBatch(pending[1].id) /\ Status(pending[1].id) = "error"
    /\ InBatch(pending[2].id) /\ Status(pending[2].id) = "completed"

\* The updates processImage issues for the record it works on.
ProcessImageUpdate ==
    \/ ProcessImage
    \/ \E p \in EngineProgress : OnProgress(p)
    \/ CompressResolved
    \/ CompressRejected

\* C8: an update issued while record X is processed changes no field of a
\* record with id # X and leaves membership and order of the batch alone.
C8_PerRecordIsolation ==
    [][ProcessImageUpdate =>
          /\ Len(images') = Len(images)
          /\ \A i \in DOMAIN images :
                /\ images'[i].id = images[i].id
                /\ images[i].id # Current.id => images'[i] = images[i]]_vars
C8_Witness ==
    /\ Len(images) >= 2
    /\ pc = "compress"
    /\ InBatch(Current.id)
    /\ images[Find(images, Current.id)].progress > Percent(10)
    /\ \E i \in DOMAIN images : images[i].status = "completed"

\* A compression or naming call settles for a record that has left the batch.
LateSettle ==
    \/ /\ pc = "compress" /\ ~InBatch(Current.id)
       /\ (CompressResolved \/ CompressRejected)
    \/ \E id \in Ids : /\ ~InBatch(id)
                       /\ \/ \E s \in Suggestions : SuggestNameOk(id, s)
                          \/ SuggestNameFailed(id)

\* C9: a result that arrives for a removed record is dropped: the batch has
\* no record of that id afterwards and no other record is changed.
C9_LateResultDiscarded == [][LateSettle => images' = images]_vars
\* A compression resolved for a record that was not in the batch (its URL was
\* created and never stored), and a naming call is in flight for another.
C9_Witness ==
    /\ Len(images) >= 1
    /\ \E id \in Ids : /\ ~InBatch(id)
                       /\ ResultUrl(id) \in created \ revoked

\* C10: a failed suggestName changes no record and does not touch the batch
\* run.
C10_NamingFailureIsolated ==
    [][(\E id \in Ids : SuggestNameFailed(id)) =>
          /\ images' = images
          /\ UNCHANGED <<isProcessing, pending, idx, pc>>]_vars
\* A naming call has failed during a run: nothing was ever removed or renamed,
\* the marker is back to null while another call is still in flight.
C10_Witness ==
    /\ pc = "compress"
    /\ Len(images) = nextId - 1
    /\ \A i \in DOMAIN images : images[i].optimizedName = Undefined
    /\ isRenaming = Null
    /\ \E id \in Ids : naming[id] > 0

\* A naming call succeeds for record id.
NamingOk(id) == \E s \in Suggestions : SuggestNameOk(id, s)
\* Between the two states only optimizedName of the record with this id may
\* differ.
OnlyNameOf(id) ==
    /\ Len(images') = Len(images)
    /\ \A i \in DOMAIN images :
          /\ images'[i] = [images[i] EXCEPT
                             !.optimizedName = images'[i].optimizedName]
          /\ images[i].id # id => images'[i] = images[i]

\* C11 as stated: a successful suggestName writes only optimizedName of the
\* one record it targets, and no update issued by processImage writes
\* optimizedName of any record.
C11_DisjointFields ==
    [][/\ \A id \in Ids : NamingOk(id) => OnlyNameOf(id)
       /\ ProcessImageUpdate =>
             \A i \in DOMAIN images :
                images'[i].optimizedName = images[i].optimizedName]_vars

\* C11, amended: a successful suggestName writes only optimizedName of the one
\* record it targets; an update issued by processImage never changes an
\* optimizedName that is set, and writes optimizedName only in the completion
\* update, for the processed record, when it is unset: the default name.
C11_NameWrittenOnlyWhenUnset ==
    [][/\ \A id \in Ids :
             (naming'[id] < naming[id] /\ NamingOk(id)) => OnlyNameOf(id)
       /\ ProcessImageUpdate =>
             \A i \in DOMAIN images :
                \/ images'[i].optimizedName = images[i].optimizedName
                \/ /\ CompressResolved
                   /\ images[i].id = Current.id
                   /\ images[i].optimizedName = Undefined
                   /\ images'[i].optimizedName
                        = Some(DefaultName(Current.file))]_vars
\* One record was named while it was processed and completed under that name;
\* another completed under the default name.
C11_Witness ==
    /\ \E i \in DOMAIN images :
          /\ images[i].status = "completed"
          /\ images[i].optimizedName # Undefined
          /\ ~images[i].optimizedName[1].opti
    /\ \E i \in DOMAIN images :
          /\ images[i].status = "completed"
          /\ images[i].optimizedName # Undefined
          /\ images[i].optimizedName[1].opti

\* The status changes a record may make in one step.
Lifecycle ==
    {<<"pending", "processing">>, <<"error", "processing">>,
     <<"processing", "completed">>, <<"processing", "error">>}

\* C12: the status of a record changes only along pending -> processing,
\* error -> processing, processing -> completed and processing -> error, and
\* a completed record that stays in the batch keeps its status, its result
\* URL and its result size whatever run, progress callback or naming call
\* comes later.
C12_LifecycleCompletedTerminal ==
    [][\A i \in DOMAIN images, j \in DOMAIN images' :
          images'[j].id = images[i].id =>
             /\ \/ images'[j].status = images[i].status
                \/ <<images[i].status, images'[j].status>> \in Lifecycle
             /\ images[i].status = "completed" =>
                   /\ images'[j].status = "completed"
                   /\ images'[j].optimizedUrl = images[i].optimizedUrl
                   /\ images'[j].optimizedSize = images[i].optimizedSize]_vars
\* A second run is under way: it retries the record that failed in the first
\* run and has left alone the record that completed in it.
C12_Witness ==
    /\ pc = "compress"
    /\ Len(pending) = 1
    /\ \E i \in DOMAIN images :
          /\ images[i].id = Current.id
          /\ images[i].status = "processing"
          /\ images[i].error # Undefined
    /\ \E i \in DOMAIN images :
          /\ images[i].status = "completed"
          /\ images[i].optimizedName # Undefined
          /\ ~images[i].optimizedName[1].opti

\* The stored values that are whole percentages from 0 to 100.
WholePercents == {Percent(k) : k \in 0..100}

\* C13: after every step the progress of every record is an integer from 0
\* to 100, and a record that is 'processing' before and after the step has
\* not lost progress, whatever values the engine reports.
C13_ProgressIntegerMonotone ==
    [][\A j \in DOMAIN images' :
          /\ images'[j].progress \in WholePercents
          /\ \A i \in DOMAIN images :
                (/\ images[i].id = images'[j].id
                 /\ images[i].status = "processing"
                 /\ images'[j].status = "processing")
                => images'[j].progress >= images[i].progress]_vars

\* A step of a downloadZip call.
ZipStep == DownloadZip \/ ZipFetch \/ ZipGenerate
\* The call under way ends with this step.
ZipEnds == zip.pc = "fetch" /\ zip'.pc = "idle"
CompletedWithResult ==
    {i \in DOMAIN images :
        images[i].status = "completed" /\ images[i].optimizedUrl # Undefined}

\* C14: downloadZip selects exactly the records that are 'completed' and hold
\* a result URL, in batch order; when there is none it builds no archive,
\* creates no blob URL, starts no download and fails in no way; and no step
\* of it changes the batch.
C14_SelectsCompletedOnly ==
    [][/\ ZipStep => images' = images
       /\ DownloadZip =>
             IF CompletedWithResult = {}
             THEN zip' = zip /\ created' = created /\ revoked' = revoked
             ELSE /\ Len(zip'.queue) = Cardinality(CompletedWithResult)
                  /\ \A k \in DOMAIN zip'.queue :
                        \E i \in CompletedWithResult :
                           /\ zip'.queue[k] = images[i]
                           /\ Cardinality({h \in CompletedWithResult : h < i})
                                = k - 1]_vars
\* A call has selected from a batch in which one record failed and two
\* completed.
C14_Witness ==
    /\ zip.pc = "fetch"
    /\ Len(zip.queue) = 2
    /\ \E i \in DOMAIN images : images[i].status = "error"

\* A downloadZip call has ended after the run, on the batch as it is now.
ZipEnded == ~isProcessing /\ zip.pc = "idle" /\ zip.outcome # "none"
\* The entry the archive should hold for record i.
EntryOf(i) ==
    [name |-> EntryName(images[i]), content |-> BlobOf(images[i].optimizedUrl[1])]

\* C15: the archive downloadZip builds holds one entry per completed record:
\* as many entries as completed records, each under the record's
\* optimizedName and holding the record's result, also when two files share
\* a stem or two records share a name.
C15_OneEntryPerCompleted ==
    (ZipEnded /\ CompletedWithResult # {}) =>
       /\ zip.outcome = "built"
       /\ Cardinality(zip.archive) = Cardinality(CompletedWithResult)
       /\ \A i \in CompletedWithResult : EntryOf(i) \in zip.archive

\* C16: when two completed records have the same optimizedName the archive
\* holds a single entry under that name, and its content is the result of
\* the last of them in batch order.
C16_LastWinsOnCollision ==
    \A i, j \in CompletedWithResult :
       (/\ ZipEnded
        /\ i < j
        /\ EntryName(images[i]) = EntryName(images[j])
        /\ \A k \in CompletedWithResult :
              k > j => EntryName(images[k]) # EntryName(images[j]))
       => /\ zip.outcome = "built"
          /\ {e \in zip.archive : e.name = EntryName(images[j])} = {EntryOf(j)}

\* C17: a second downloadZip call on the unchanged batch ends as the first
\* did: both build an archive, the two archives have the same entries, and
\* every result URL of the batch is still usable.
C17_SecondCallSameArchive ==
    [][(ZipEnds /\ ~isProcessing /\ zip.outcome # "none") =>
          /\ zip.outcome = "built"
          /\ zip'.outcome = "built"
          /\ zip'.archive = zip.archive
          /\ \A i \in CompletedWithResult :
                images[i].optimizedUrl[1] \notin revoked']_vars

\* toSafeSlug has returned.
SlugReturned == call.fn = "toSafeSlug" /\ call.pc = "returned"
IsLowerAlnum(c) == c \in LowerAlnum
\* Non-empty, of [a-z0-9-] only, no hyphen at either end, no two hyphens in
\* a row.
WellFormedSlug(r) ==
    /\ r # <<>>
    /\ \A k \in DOMAIN r : r[k] \in LowerAlnum \cup {"-"}
    /\ r[1] # "-"
    /\ r[Len(r)] # "-"
    /\ \A k \in 1..(Len(r) - 1) : ~(r[k] = "-" /\ r[k + 1] = "-")
MyBeachPhoto ==
    <<"m", "y", "-", "b", "e", "a", "c", "h", "-", "p", "h", "o", "t", "o">>

\* C18: for every text the result of toSafeSlug is non-empty, made of
\* [a-z0-9-], without a hyphen at either end and without adjacent hyphens;
\* it is the fallback 'optimized-image' when nothing of the text (trimmed,
\* extension removed) survives the cleaning, and otherwise keeps the letters
\* and digits of that text, lower-cased and in order; "My Beach Photo.JPG"
\* gives "my-beach-photo", "   " the fallback and "a///b" gives "a-b".
C18_SlugWellFormed ==
    SlugReturned =>
          LET r == call.result[1]
              kept == SelectSeq(ToLowerCase(StripExtension(Trim(call.arg))),
                                IsLowerAlnum)
          IN /\ WellFormedSlug(r)
             /\ IF kept = <<>> THEN r = FallbackSlug
                ELSE SelectSeq(r, IsLowerAlnum) = kept
             /\ call.arg = MyBeachPhotoJPG => r = MyBeachPhoto
             /\ call.arg = Blanks => r = FallbackSlug
             /\ call.arg = ASlashesB => r = <<"a", "-", "b">>
\* The call on "My Beach Photo.JPG" has returned "my-beach-photo".
C18_Witness ==
    /\ SlugReturned
    /\ call.arg = MyBeachPhotoJPG
    /\ call.result = Some(MyBeachPhoto)

HandlerDone == call.fn = "handler" /\ call.pc = "done"
\* The parsed body lacks mimeType or data.
MissingField == call.body.parses /\ (~call.body.mimeType \/ ~call.body.data)
\* The remote call or the reading of its text has failed.
UpstreamFailed == call.generated = "rejected" \/ call.text = "rejected"
StatusCodes == {200, 400, 405, 500}
\* What holds of every request whatever the order of the checks: at most one
\* response and one remote call, the remote model is invoked only for a POST
\* with both fields, a finished request has exactly one response, a non-POST
\* gets 405, and 200 comes only after the remote call and the reading of
\* its text succeeded.
HandlerCommon ==
    /\ Len(call.responses) <= 1
    /\ call.invoked <= 1
    /\ call.invoked > 0 =>
          call.method = "POST" /\ call.body.mimeType /\ call.body.data
    /\ HandlerDone =>
          /\ Len(call.responses) = 1
          /\ call.responses[1].status \in StatusCodes
          /\ call.method # "POST" => call.responses[1].status = 405
          /\ call.responses[1].status = 200 =>
                /\ call.invoked = 1
                /\ call.generated = "resolved"
                /\ call.text = "read"
          /\ (call.method = "POST" /\ UpstreamFailed) =>
                call.responses[1].status = 500

\* C19 as stated: every request gets exactly one response, with status 200,
\* 400, 405 or 500; a non-POST gets 405, a POST whose body lacks mimeType or
\* data gets 400, a failure of the configuration or upstream gets 500, 200
\* comes only after the remote call succeeded, and the remote model is not
\* invoked for a wrong method or a missing field.
C19_StatusPerRequest ==
    call.fn = "handler" =>
       /\ HandlerCommon
       /\ HandlerDone =>
             /\ (call.method = "POST" /\ MissingField) =>
                   call.responses[1].status = 400
             /\ (call.method = "POST" /\ ~MissingField /\ ~call.apiKey) =>
                   call.responses[1].status = 500

\* C19, amended: as stated, except that the checks come in the order method,
\* API key, body: a POST gets 500 when GEMINI_API_KEY is not set or the body
\* is a string that does not parse, whatever the body holds, and a POST whose
\* body lacks mimeType or data gets 400 when the key is set.
C19_StatusInCheckOrder ==
    call.fn = "handler" =>
       /\ HandlerCommon
       /\ HandlerDone =>
             /\ (call.method = "POST" /\ (~call.apiKey \/ ~call.body.parses)) =>
                   call.responses[1].status = 500
             /\ (call.method = "POST" /\ call.apiKey /\ MissingField) =>
                   call.responses[1].status = 400
\* A POST without data was answered 400 with the key set and the remote model
\* never invoked.
C19_Witness ==
    /\ HandlerDone
    /\ call.method = "POST"
    /\ call.apiKey
    /\ call.body.mimeType /\ ~call.body.data
    /\ call.invoked = 0
    /\ Len(call.responses) = 1
    /\ call.responses[1].status = 400

ResizeReturned == call.fn = "resizeImageToFit" /\ call.pc = "returned"
PositiveBounds ==
    /\ call.maxWidth.finite /\ call.maxHeight.finite
    /\ call.maxWidth.v > 0 /\ call.maxHeight.v > 0
FitsBounds ==
    call.file.width <= call.maxWidth.v /\ call.file.height <= call.maxHeight.v
\* round(side * scale) for scale = min(maxWidth / width, maxHeight / height)
Scaled(side) ==
    IF call.maxWidth.v * call.file.height <= call.maxHeight.v * call.file.width
    THEN Round(side * call.maxWidth.v, call.file.width)
    ELSE Round(side * call.maxHeight.v, call.file.height)
\* The decoder, the 2D context, drawImage and the encoder all worked on a
\* file of an image type.
ResizeWorked == call.file.image /\ call.failure = "none"

\* C20 as stated: with a non-finite or non-positive bound, or a picture that
\* fits both bounds, the input is returned unchanged; otherwise the output
\* of a resize that worked is round(width * scale) x round(height * scale),
\* each side at least 1 and at most its bound.
C20_NeverUpscalesAlwaysFits ==
    ResizeReturned =>
       LET r == call.result[1]
       IN IF ~PositiveBounds \/ FitsBounds THEN r.same
          ELSE ResizeWorked =>
                  /\ r = NewFile(Scaled(call.file.width),
                                 Scaled(call.file.height))
                  /\ r.width >= 1 /\ r.width <= call.maxWidth.v
                  /\ r.height >= 1 /\ r.height <= call.maxHeight.v

\* C20, amended: the output is never larger than the input on either side;
\* with a non-finite or non-positive bound, or a picture that fits both
\* bounds, the input is returned unchanged, and so it is when the file is
\* not of an image type or the decoder, the 2D context, drawImage or the
\* encoder fails; otherwise the output is max(1, round(width * scale)) x
\* max(1, round(height * scale)), each side at least 1 and at most its bound
\* (1600x1200 under 800x600 gives 800x600).
C20_FitsWhenResized ==
    ResizeReturned =>
       LET r == call.result[1]
       IN /\ r.width <= call.file.width /\ r.height <= call.file.height
          /\ IF ~PositiveBounds \/ FitsBounds \/ ~ResizeWorked
             THEN r = SameFile(call.file)
             ELSE /\ r = NewFile(Max(1, Scaled(call.file.width)),
                                 Max(1, Scaled(call.file.height)))
                  /\ r.width >= 1 /\ r.width <= call.maxWidth.v
                  /\ r.height >= 1 /\ r.height <= call.maxHeight.v
          /\ (/\ call.file.width = 1600 /\ call.file.height = 1200
              /\ ResizeWorked)
             => r = NewFile(800, 600)
\* The 1600x1200 picture was resized under 800x600.
C20_Witness ==
    /\ ResizeReturned
    /\ call.file.width = 1600 /\ call.file.height = 1200
    /\ call.maxWidth = Finite(800) /\ call.maxHeight = Finite(600)
    /\ call.result = Some(NewFile(800, 600))

\* The ids of a batch, in batch order.
IdSeq(imgs) == [i \in DOMAIN imgs |-> imgs[i].id]
\* The records of the batch other than the one with this id, in order.
Without(id) ==
    LET keep == {i \in DOMAIN images : images[i].id # id}
        nth(k) == CHOOSE i \in keep : Cardinality({j \in keep : j < i}) = k - 1
    IN [k \in 1..Cardinality(keep) |-> images[nth(k)]]
\* C21: no two records of the batch share an id; addFiles appends the new
\* records after the existing ones, in input order; removeImage(id) removes
\* exactly the record with that id and leaves the others as they are; and a
\* step that neither adds nor removes records (progress, completion, error,
\* naming) changes neither the order nor the ids of the records.
C21_OrderAndIdentity ==
    [][/\ \A i, j \in DOMAIN images' :
             images'[i].id = images'[j].id => i = j
       /\ \A n \in 0..MaxFiles :
             (nextId' = nextId + n /\ AddFiles(n)) =>
                /\ Len(images') = Len(images) + n
                /\ SubSeq(images', 1, Len(images)) = images
                /\ \A k \in 1..n :
                      images'[Len(images) + k].file = FileOf(nextId + k - 1)
       /\ \A id \in Ids :
             (Len(images') < Len(images) /\ RemoveImage(id)) =>
                images' = Without(id)
       /\ (Len(images') = Len(images) /\ nextId' = nextId) =>
             IdSeq(images') = IdSeq(images)]_vars
\* The first record was removed; the second stayed, was processed and
\* completed.
C21_Witness ==
    /\ Len(images) = 1
    /\ nextId = 3
    /\ images[1].id = 2
    /\ images[1].status = "completed"

ProgressWasStored == call.fn = "onProgress" /\ call.pc = "stored"
\* For the two engine values of the call: what is stored lies in [10, 95],
\* is 10 at the engine's minimum and 95 at its maximum, and is ordered as
\* the engine values are.
MapsOntoTenToNinetyFive ==
    LET r == call.result[1]
    IN /\ FracLeq(Frac(10, 1), r.p) /\ FracLeq(r.p, Frac(95, 1))
       /\ FracEq(call.p, Frac(0, 1)) => FracEq(r.p, Frac(10, 1))
       /\ FracEq(call.p, Frac(call.max, 1)) => FracEq(r.p, Frac(95, 1))
       /\ FracLeq(call.p, call.q) => FracLeq(r.p, r.q)

\* C23 as stated: for an engine value in the range 0..1 what the sink stores
\* is in [10, 95], is 10 at the minimum and 95 at the maximum, and is
\* non-decreasing in the engine value.
C23_SinkOverFractionRange ==
    (ProgressWasStored /\ call.max = 1) => MapsOntoTenToNinetyFive

\* C23, amended: the same for an engine value in the range 0..100, the
\* percentage the engine reports.
C23_SinkOverPercentRange ==
    (ProgressWasStored /\ call.max = 100) => MapsOntoTenToNinetyFive
\* The engine's maximum 100 was stored as 95, next to a smaller value.
C23_Witness ==
    /\ ProgressWasStored
    /\ call.max = 100
    /\ call.p = Frac(100 * ProgressSteps, ProgressSteps)
    /\ FracEq(call.result[1].p, Frac(95, 1))
    /\ FracLeq(call.q, Frac(50, 1))
    /\ ~FracEq(call.q, Frac(0, 1))

\* C24: when the compression rejects for record X, X gets status 'error'
\* and the error 'Process failed' and keeps every other field: its progress,
\* and no result URL, result size or name from this run; no other record
\* changes and no blob URL is created.
C24_FailureBecomesState ==
    [][(pc = "compress" /\ CompressRejected) =>
          /\ created' = created
          /\ Len(images') = Len(images)
          /\ \A i \in DOMAIN images :
                images'[i] =
                   IF images[i].id = Current.id
                   THEN [images[i] EXCEPT !.status = "error",
                                          !.error = Some("Process failed")]
                   ELSE images[i]]_vars
\* A record failed after the engine had reported progress: it is in 'error'
\* with the progress it had, no result, no name, and no result URL was ever
\* created for it.
C24_Witness ==
    \E i \in DOMAIN images :
       /\ images[i].status = "error"
       /\ images[i].error = Some("Process failed")
       /\ images[i].progress > Percent(10)
       /\ images[i].optimizedUrl = Undefined
       /\ images[i].optimizedSize = Undefined
       /\ images[i].optimizedName = Undefined
       /\ ResultUrl(images[i].id) \notin created

\* C25: whichever step fails (decode, 2D context, drawImage, encode), the
\* promise resizeImageToFit returns is never rejected, and a call in which a
\* step failed resolves to the input file itself.
C25_ResizeNeverFailsOutward ==
    call.fn = "resizeImageToFit" =>
       /\ call.pc \in {"called", "decode", "encode", "returned"}
       /\ call.failure # "none" =>
             /\ call.pc = "returned"
             /\ call.result = Some(SameFile(call.file))
       /\ call.pc = "returned" <=> call.result # Undefined
\* The encoder answered null for a picture larger than the bounds: the call
\* resolved to the input file.
C25_Witness ==
    /\ ResizeReturned
    /\ call.failure = "encode"
    /\ call.file.width > call.maxWidth.v
    /\ call.result = Some(SameFile(call.file))

\* C27: when resizeImageToFit has returned, and when
\* createAiThumbnailPayload has returned or fallen back, the bitmap the
\* routine obtained from createImageBitmap, if any, has been closed.
C27_BitmapClosedOnEveryPath ==
    /\ ResizeReturned => call.bitmap \in {"none", "closed"}
    /\ (/\ call.fn = "createAiThumbnailPayload"
        /\ call.pc \in {"fallback", "returned", "rejected"})
       => call.bitmap \in {"none", "closed"}

\* C26: whichever of decode, canvas context, JPEG encode and the data-URL
\* reads fail, the one in the fallback branch included, the promise of
\* createAiThumbnailPayload is never rejected; it resolves to a payload,
\* which after a failure of the JPEG path is the resized file under the
\* file's own media type.
C26_ThumbnailNeverFailsOutward ==
    call.fn = "createAiThumbnailPayload" =>
       /\ call.pc # "rejected"
       /\ (call.pc = "returned" /\ call.failure # "none") =>
             /\ call.result[1].mimeType = call.type
             /\ call.result[1].data \in {call.resized, ""}

\* C28: in every reachable state the preview URL and the result URL, when
\* present, of every record of the batch have not been revoked.
C28_NoReleasedHandleInBatch ==
    \A i \in DOMAIN images : UrlsOf(images[i]) \cap revoked = {}

\* C29: isProcessing is true exactly from the click that starts a processAll
\* run until its loop is past its last record, and, every compression call
\* settling, a run that is under way ends with isProcessing false, whatever
\* is removed, cleared or fails meanwhile.
C29_IsProcessingCleared ==
    /\ [](isProcessing <=> pc # "idle")
    /\ isProcessing ~> ~isProcessing
\* A run has ended with the flag cleared although one of its records was
\* removed and another failed.
C29_Witness ==
    /\ ~isProcessing
    /\ pc = "idle"
    /\ Len(images) = 1
    /\ nextId = 3
    /\ images[1].status = "error"

\* C30: whenever a suggestName request for a record r of the batch is in
\* flight, isRenaming is r and no second request for r is in flight.
C30_MarkerCoversRequests ==
    \A id \in Ids :
       (InBatch(id) /\ naming[id] > 0) => (isRenaming = id /\ naming[id] = 1)

\* Both calls have made their last update.
BothLanded ==
    /\ call.fn = "concurrent"
    /\ call.suggestName = "done"
    /\ call.processImage = "done"
\* The record both orders must end in: completed, the result handle and size
\* of the engine's file, and the suggested name with the extension of the
\* name the record had before, or the configured format if it had none.
NamedAndCompleted ==
    [call.start EXCEPT
        !.status = "completed",
        !.progress = Percent(100),
        !.optimizedSize = Some(CompressedFile(call.start.id).size),
        !.optimizedUrl = Some(ResultUrl(call.start.id)),
        !.optimizedName =
            Some([stem |-> call.newName, opti |-> FALSE,
                  ext |-> IF call.start.optimizedName # Undefined
                          THEN call.start.optimizedName[1].ext
                          ELSE call.targetFormat])]

\* C31: with the settings unchanged, when a successful suggestName and a
\* successful processImage ran concurrently on one record, the record ends
\* the same whichever final update landed first: status 'completed', the
\* result handle and size, and the suggested name with the same extension.
C31_NamingAndProcessingCommute ==
    BothLanded => call.img = NamedAndCompleted
\* The rename landed first on a record without a name, and the completion
\* after it.
C31_Witness ==
    /\ BothLanded
    /\ call.first = "suggestName"
    /\ call.start.optimizedName = Undefined
\* The completion landed first, under the default name, and the rename
\* after it.
C31_WitnessCompletionFirst ==
    /\ BothLanded
    /\ call.first = "processImage"
    /\ call.start.optimizedName = Undefined

====
